---------------------------- MODULE Spec2Model ----------------------------
(***************************************************************************)
(* Model of air-quality-dash/app.py: the AQI utilities                     *)
(* (AQI_TABLE, AQI_CATEGORY, compute_aqi_for_value, aqi_category) and the  *)
(* dashboard callback update_all.                                          *)
(*                                                                         *)
(* Numbers.  Python floats are modelled by exact rationals <<n, d>> in     *)
(* lowest terms with d > 0.  The two non-numbers of the program are        *)
(* <<0, 0>> (numpy NaN) and <<1, 0>> (Python None); every test of the      *)
(* program "value is None or pd.isna(value)" is IsMissing.                 *)
(***************************************************************************)
EXTENDS Integers, Sequences, FiniteSets

VARIABLES df, out, call

vars == <<df, out, call>>

----------------------------------------------------------------------------
(* Exact rational arithmetic standing for float arithmetic.                *)

Abs(n) == IF n < 0 THEN -n ELSE n

RECURSIVE GCD(_, _)
GCD(a, b) == IF b = 0 THEN a ELSE GCD(b, a % b)

R(n, d) ==
    IF d = 1 THEN <<n, 1>>
    ELSE LET g == GCD(Abs(n), d)
         IN  <<n \div g, d \div g>>

I(n) == <<n, 1>>

NaN == <<0, 0>>
None == <<1, 0>>

IsMissing(x) == x[2] = 0

\* Sums and comparisons go through the least common denominator, which
\* keeps every intermediate product small.
RAdd(x, y) ==
    IF x[2] = y[2] THEN R(x[1] + y[1], x[2])
    ELSE LET g == GCD(x[2], y[2])
         IN  R(x[1] * (y[2] \div g) + y[1] * (x[2] \div g),
               (x[2] \div g) * y[2])
RSub(x, y) == RAdd(x, <<-y[1], y[2]>>)
RMul(x, y) ==
    IF x[2] = 1 /\ y[2] = 1 THEN <<x[1] * y[1], 1>>
    ELSE LET g1 == GCD(Abs(x[1]), y[2])
             g2 == GCD(Abs(y[1]), x[2])
         IN  <<(x[1] \div g1) * (y[1] \div g2), (x[2] \div g2) * (y[2] \div g1)>>
RDiv(x, y) ==
    IF y[1] > 0 THEN RMul(x, <<y[2], y[1]>>)
                ELSE RMul(x, <<-y[2], -y[1]>>)

\* x <= y and x < y on numbers; any comparison with NaN is False, as in IEEE
\* arithmetic and in pandas.
RLe(x, y) ==
    /\ ~IsMissing(x) /\ ~IsMissing(y)
    /\ IF x[2] = y[2] THEN x[1] <= y[1]
       ELSE LET g == GCD(x[2], y[2])
            IN  x[1] * (y[2] \div g) <= y[1] * (x[2] \div g)
RLt(x, y) ==
    /\ ~IsMissing(x) /\ ~IsMissing(y)
    /\ IF x[2] = y[2] THEN x[1] < y[1]
       ELSE LET g == GCD(x[2], y[2])
            IN  x[1] * (y[2] \div g) < y[1] * (x[2] \div g)

\* <<Op(lo), ..., Op(hi)>>
RECURSIVE BuildSeq(_, _, _)
BuildSeq(Op(_), lo, hi) ==
    IF lo > hi THEN << >> ELSE <<Op(lo)>> \o BuildSeq(Op, lo + 1, hi)

----------------------------------------------------------------------------
(* The AQI utilities.                                                      *)

Dash == "-"

AQI_TABLE_pm25 ==
    << <<R(0, 1),     R(120, 10),  0,   50>>,
       <<R(121, 10),  R(354, 10),  51,  100>>,
       <<R(355, 10),  R(554, 10),  101, 150>>,
       <<R(555, 10),  R(1504, 10), 151, 200>>,
       <<R(1505, 10), R(2504, 10), 201, 300>>,
       <<R(2505, 10), R(3504, 10), 301, 400>>,
       <<R(3505, 10), R(5004, 10), 401, 500>> >>

AQI_TABLE_o3 ==
    << <<I(0),   I(54),  0,   50>>,
       <<I(55),  I(70),  51,  100>>,
       <<I(71),  I(85),  101, 150>>,
       <<I(86),  I(105), 151, 200>>,
       <<I(106), I(200), 201, 300>> >>

\* AQI_TABLE.get(pollutant, [])
AQI_TABLE(pollutant) ==
    CASE pollutant = "pm25" -> AQI_TABLE_pm25
      [] pollutant = "o3"   -> AQI_TABLE_o3
      [] OTHER              -> << >>

AQI_CATEGORY ==
    << <<0,   50,  "Good">>,
       <<51,  100, "Moderate">>,
       <<101, 150, "Unhealthy for Sensitive Groups">>,
       <<151, 200, "Unhealthy">>,
       <<201, 300, "Very Unhealthy">>,
       <<301, 500, "Hazardous">> >>

\* Mutant of Interpolate: the offset index_low is left out.
Interpolate_noOffset(row, value) ==
    RMul(RDiv(I(row[4] - row[3]), RSub(row[2], row[1])), RSub(value, row[1]))

\* The value the loop "for BPlo, BPhi, Ilo, Ihi in table" returns in the row
\* whose test BPlo <= value <= BPhi passes.
Interpolate(row, value) ==
    RAdd(RMul(RDiv(I(row[4] - row[3]), RSub(row[2], row[1])),
              RSub(value, row[1])),
         I(row[3]))

\* Mutant of InBreakpoint: conc_high is excluded from its breakpoint.
InBreakpoint_exclusiveHigh(row, value) ==
    RLe(row[1], value) /\ RLt(value, row[2])

InBreakpoint(row, value) == RLe(row[1], value) /\ RLe(value, row[2])

\* The loop over the table: the number of the first row whose test passes,
\* 0 when the loop ends without a return.
RECURSIVE FirstBreakpoint(_, _, _)
FirstBreakpoint(table, i, value) ==
    IF i > Len(table) THEN 0
    ELSE IF InBreakpoint(table[i], value) THEN i
    ELSE FirstBreakpoint(table, i + 1, value)

AqiOfRow(table, first, value) ==
    IF first > 0 THEN Interpolate(table[first], value)
    ELSE IF Len(table) > 0 /\ RLt(table[Len(table)][2], value) THEN I(500)
    ELSE NaN

compute_aqi_for_value(pollutant, value) ==
    IF IsMissing(value) THEN NaN
    ELSE AqiOfRow(AQI_TABLE(pollutant),
                  FirstBreakpoint(AQI_TABLE(pollutant), 1, value), value)

InBand(band, aqi) == RLe(I(band[1]), aqi) /\ RLe(aqi, I(band[2]))

RECURSIVE FirstBand(_, _)
FirstBand(i, aqi) ==
    IF i > Len(AQI_CATEGORY) THEN 0
    ELSE IF InBand(AQI_CATEGORY[i], aqi) THEN i
    ELSE FirstBand(i + 1, aqi)

CategoryName(band) == IF band > 0 THEN AQI_CATEGORY[band][3] ELSE Dash

aqi_category(aqi) ==
    IF IsMissing(aqi) THEN Dash ELSE CategoryName(FirstBand(1, aqi))

----------------------------------------------------------------------------
(* Calls of the two utilities on their own.  call records the last call:   *)
(* its function, its arguments and what it returned.                       *)

Radius == 2

KnownPollutants == {"pm25", "o3"}

\* Grid step of the sampled concentrations: 0.05 for pm25, 0.5 for o3, half
\* the distance between one breakpoint's conc_high and the next conc_low.
ConcStep(pollutant) == IF pollutant = "pm25" THEN R(1, 20) ELSE R(1, 2)

Around(x, step) == {RAdd(x, RMul(I(k), step)) : k \in -Radius..Radius}

ConcSamples(pollutant) ==
    LET table == AQI_TABLE(pollutant)
    IN  UNION {Around(table[i][1], ConcStep(pollutant))
                 \cup Around(table[i][2], ConcStep(pollutant))
                 \cup {RDiv(RAdd(table[i][1], table[i][2]), I(2))}
               : i \in 1..Len(table)}
        \cup {I(-5), I(600), NaN, None}

AqiSamples ==
    UNION {Around(I(AQI_CATEGORY[i][1]), R(1, 2))
             \cup Around(I(AQI_CATEGORY[i][2]), R(1, 2))
           : i \in 1..Len(AQI_CATEGORY)}
    \cup {I(75), I(-5), I(600), NaN, None}

NoCall == [fn |-> "none", pollutant |-> "", arg |-> NaN, result |-> NaN,
           label |-> ""]

CallComputeAqi(pollutant, value) ==
    /\ call' = [fn |-> "compute_aqi_for_value", pollutant |-> pollutant,
                arg |-> value, result |-> compute_aqi_for_value(pollutant, value),
                label |-> ""]
    /\ UNCHANGED <<df, out>>

CallAqiCategory(aqi) ==
    /\ call' = [fn |-> "aqi_category", pollutant |-> "", arg |-> aqi,
                result |-> NaN, label |-> aqi_category(aqi)]
    /\ UNCHANGED <<df, out>>

NoOut == [kind |-> "none"]

InitFn == df = << >> /\ out = NoOut /\ call = NoCall

ComputeAqiStep ==
    \E pollutant \in KnownPollutants \cup {"no2"} :
        \E value \in (IF pollutant \in KnownPollutants
                      THEN ConcSamples(pollutant) ELSE {I(10), I(600), NaN}) :
            CallComputeAqi(pollutant, value)

AqiCategoryStep == \E aqi \in AqiSamples : CallAqiCategory(aqi)

NextFn == ComputeAqiStep \/ AqiCategoryStep

SpecFn == InitFn /\ [][NextFn]_vars

----------------------------------------------------------------------------
(* The data frame df and the callback update_all.                          *)
(*                                                                         *)
(* A row of df is [city, station, datetime_local, pollutant, value].       *)
(* datetime_local is a whole number of hours since a Monday 00:00, or NaT. *)
(* A falsy callback input (None, "", [], 0) is "" for city and station,    *)
(* NoDate for the dates, << >> for pollutants and 0 for thresh: the code   *)
(* tests these inputs by truth value only ("if city", "thresh or 100").    *)

NaT == -1
NoDate == -1

HoursPerDay == 24
HoursPerWeek == 168

Range(seq) == {seq[i] : i \in DOMAIN seq}

Min(S) == CHOOSE x \in S : \A y \in S : x <= y
Max(S) == CHOOSE x \in S : \A y \in S : y <= x

RECURSIVE RSum(_)
RSum(seq) == IF seq = << >> THEN I(0) ELSE RAdd(seq[1], RSum(Tail(seq)))

\* Series.mean(), np.nanmean: the mean of the values that are not NaN, NaN
\* when there is none.
NanMean(seq) ==
    LET defined == SelectSeq(seq, LAMBDA x : ~IsMissing(x))
    IN  IF defined = << >> THEN NaN
        ELSE RDiv(RSum(defined), I(Len(defined)))

\* DataFrame.max(axis=1): the largest value that is not NaN, NaN when none.
NanMax(S) ==
    LET defined == {x \in S : ~IsMissing(x)}
    IN  IF defined = {} THEN NaN
        ELSE CHOOSE x \in defined : \A y \in defined : RLe(y, x)

\* stations_by_city.query("city == @city")["station"].dropna().unique()
valid_stations(city) ==
    {df[i].station : i \in {j \in DOMAIN df : df[j].city = city}}

\* Lines 288-310: the station guard and the city, station, date and
\* pollutant filters.
FilteredRows(city, station, start_date, end_date, pollutants) ==
    LET st == IF city # "" /\ station # "" /\ station \notin valid_stations(city)
              THEN "" ELSE station
        keep(r) ==
            /\ city = "" \/ r.city = city
            /\ st = "" \/ r.station = st
            /\ start_date = NoDate
                 \/ (r.datetime_local # NaT
                     /\ r.datetime_local >= start_date * HoursPerDay)
            /\ end_date = NoDate
                 \/ (r.datetime_local # NaT
                     /\ r.datetime_local < (end_date + 1) * HoursPerDay)
            /\ pollutants = << >> \/ r.pollutant \in Range(pollutants)
    IN  SelectSeq(df, keep)

\* dff.dropna(subset=["datetime_local", "value"])
DropNa(dff) ==
    SelectSeq(dff, LAMBDA r : r.datetime_local # NaT /\ ~IsMissing(r.value))

\* One cell of pivot_table(index="datetime_local", columns="pollutant",
\* values="value", aggfunc="mean").
PivotCell(rows, t, pollutant) ==
    LET hit(r) == r.datetime_local = t /\ r.pollutant = pollutant
        cell   == SelectSeq(rows, hit)
    IN  NanMean(BuildSeq(LAMBDA i : cell[i].value, 1, Len(cell)))

\* conc.resample(agg): the bucket a timestamp falls in, and the label of a
\* bucket.  Weeks run Monday to Sunday and carry the Sunday as label.
BucketWidth(agg) ==
    CASE agg = "H" -> 1
      [] agg = "D" -> HoursPerDay
      [] agg = "W" -> HoursPerWeek

BucketLabel(agg, b) ==
    IF agg = "W" THEN b * HoursPerWeek + 6 * HoursPerDay
                 ELSE b * BucketWidth(agg)

\* The table after conc.resample(agg).mean(): one row per bucket from the
\* first timestamp's to the last's, each column the mean of the pivot's cells
\* of the bucket.  tseq is the pivot's index, cols are its columns.
Resampled(rows, agg, cols, tseq) ==
    LET w == BucketWidth(agg)
        cell(b, c) ==
            NanMean(SelectSeq(
                BuildSeq(LAMBDA k : IF tseq[k] \div w = b
                                    THEN PivotCell(rows, tseq[k], cols[c])
                                    ELSE NaN,
                         1, Len(tseq)),
                LAMBDA x : ~IsMissing(x)))
        row(b) == [ts   |-> BucketLabel(agg, b),
                   conc |-> BuildSeq(LAMBDA c : cell(b, c), 1, Len(cols))]
    IN  BuildSeq(row, tseq[1] \div w, tseq[Len(tseq)] \div w)

\* The pivot itself: one row per timestamp.
Pivoted(rows, cols, tseq) ==
    LET row(k) == [ts   |-> tseq[k],
                   conc |-> BuildSeq(LAMBDA c : PivotCell(rows, tseq[k], cols[c]),
                                     1, Len(cols))]
    IN  BuildSeq(row, 1, Len(tseq))

ConcRows(rows, agg, cols, tseq) ==
    [cols |-> cols,
     rows |-> IF tseq = << >> THEN << >>
              ELSE IF agg \in {"H", "D", "W"} THEN Resampled(rows, agg, cols, tseq)
              ELSE Pivoted(rows, cols, tseq)]

\* The increasing sequence of the members of a set of hours.
RECURSIVE SortedTimes(_)
SortedTimes(S) ==
    IF S = {} THEN << >> ELSE <<Min(S)>> \o SortedTimes(S \ {Min(S)})

\* pivot_table sorts the columns it makes.
ColumnOrder == <<"no2", "o3", "pm25">>

\* Lines 321-326: the concentration table [cols, rows], rows a sequence of
\* [ts, conc] in increasing ts, conc[c] the value of column cols[c].
ConcTable(rows, agg) ==
    ConcRows(rows, agg,
             SelectSeq(ColumnOrder,
                       LAMBDA p : \E i \in DOMAIN rows : rows[i].pollutant = p),
             SortedTimes({rows[i].datetime_local : i \in DOMAIN rows}))

pie_bins == <<0, 50, 100, 150, 200, 300, 500>>

pie_labels ==
    <<"Good (0-50)", "Moderate (51-100)", "Unhealthy SG (101-150)",
      "Unhealthy (151-200)", "Very Unhealthy (201-300)", "Hazardous (301-500)">>

\* Mutant of PdCut: bins closed on the left (right=False).
PdCut_leftClosed(x) ==
    IF IsMissing(x) THEN 0
    ELSE LET hits == {k \in 1..(Len(pie_bins) - 1) :
                         RLe(I(pie_bins[k]), x) /\ RLt(x, I(pie_bins[k + 1]))}
         IN  IF hits = {} THEN 0
             ELSE CHOOSE k \in hits : \A j \in hits : k <= j

\* pd.cut(x, bins=pie_bins, right=True, include_lowest=True): the number of
\* the bin of x, 0 when x is NaN or in no bin.
PdCut(x) ==
    IF IsMissing(x) THEN 0
    ELSE IF x = I(pie_bins[1]) THEN 1
    ELSE LET hits == {k \in 1..(Len(pie_bins) - 1) :
                         RLt(I(pie_bins[k]), x) /\ RLe(x, I(pie_bins[k + 1]))}
         IN  IF hits = {} THEN 0 ELSE Min(hits)

\* Mutant of IdxMax: the last largest value instead of the first.
IdxMax_last(seq) ==
    CHOOSE i \in DOMAIN seq :
        /\ ~IsMissing(seq[i])
        /\ \A j \in DOMAIN seq : IsMissing(seq[j]) \/ RLe(seq[j], seq[i])
        /\ \A j \in DOMAIN seq : seq[j] = seq[i] => j <= i

\* Series.idxmax(): the position of the first largest value that is not NaN.
IdxMax(seq) ==
    Min({i \in DOMAIN seq :
            /\ ~IsMissing(seq[i])
            /\ \A j \in DOMAIN seq : IsMissing(seq[j]) \/ RLe(seq[j], seq[i])})

AnyDefined(seq) == \E i \in DOMAIN seq : ~IsMissing(seq[i])

\* (aqi_df["aqi_max"] >= (thresh or 100)).mean() * 100
ExceedRate(aqi_max, thresh) ==
    LET th   == I(IF thresh = 0 THEN 100 ELSE thresh)
        hits == {i \in DOMAIN aqi_max : RLe(th, aqi_max[i])}
    IN  RMul(R(Cardinality(hits), Len(aqi_max)), I(100))

NoDataResult(args, message) ==
    [kind |-> "no_data", args |-> args, message |-> message,
     avg_aqi |-> NaN, exceed_rate |-> NaN, worst_txt |-> Dash,
     driver_label |-> Dash]

\* Mutant of DriverKey: among equal means the column first in the pivot's
\* sorted order wins, not the first requested.
DriverKey_columnOrder(cols, mean_by_pollutant) ==
    IF AnyDefined(mean_by_pollutant)
    THEN LET best == {i \in DOMAIN cols :
                         mean_by_pollutant[i] = mean_by_pollutant[IdxMax(mean_by_pollutant)]}
             pos(i) == CHOOSE n \in DOMAIN ColumnOrder : ColumnOrder[n] = cols[i]
         IN  cols[CHOOSE i \in best : \A j \in best : pos(i) <= pos(j)]
    ELSE Dash

\* mean_by_pollutant.idxmax() if not mean_by_pollutant.dropna().empty else "-"
DriverKey(cols, mean_by_pollutant) ==
    IF AnyDefined(mean_by_pollutant) THEN cols[IdxMax(mean_by_pollutant)]
    ELSE Dash

DriverLabel(driver_key) ==
    IF driver_key = "pm25" THEN "PM2.5"
    ELSE IF driver_key = "o3" THEN "O3" ELSE driver_key

IndexOf(seq, x) == CHOOSE i \in DOMAIN seq : seq[i] = x

\* Lines 329-343: aqi_df, one row per bucket; aqi[c] is the column of cols[c].
AqiRow(ts, aqi, aqi_max) ==
    [ts |-> ts, aqi |-> aqi, aqi_max |-> aqi_max,
     aqi_cat |-> aqi_category(aqi_max)]

\* Mutant of AqiRowOf: the overall index is the mean of the pollutants'
\* indices, not their maximum.
AqiRowOf_mean(ts, aqi) == AqiRow(ts, aqi, NanMean(aqi))

AqiRowOf(ts, aqi) == AqiRow(ts, aqi, NanMax(Range(aqi)))

AqiFrame(conc, cols) ==
    BuildSeq(LAMBDA k :
                 AqiRowOf(conc.rows[k].ts,
                        BuildSeq(LAMBDA c :
                                     compute_aqi_for_value(cols[c],
                                         conc.rows[k].conc[IndexOf(conc.cols, cols[c])]),
                                 1, Len(cols))),
             1, Len(conc.rows))

\* Lines 345-356 and 424-454: the KPIs, the category counts and the driver.
Summary(args, cols, aqi_df, aqi_max, mean_by_pollutant) ==
    [kind |-> "ok", args |-> args, message |-> "Summary",
     cols |-> cols,
     aqi_df |-> aqi_df,
     avg_aqi |-> IF AnyDefined(aqi_max) THEN NanMean(aqi_max) ELSE NaN,
     exceed_rate |-> IF AnyDefined(aqi_max)
                     THEN ExceedRate(aqi_max, args.thresh) ELSE NaN,
     worst_txt |-> IF AnyDefined(aqi_max) THEN "set" ELSE Dash,
     worst_idx |-> IF AnyDefined(aqi_max) THEN aqi_df[IdxMax(aqi_max)].ts
                   ELSE NaT,
     worst_value |-> IF AnyDefined(aqi_max) THEN aqi_max[IdxMax(aqi_max)]
                     ELSE NaN,
     mean_by_pollutant |-> mean_by_pollutant,
     counts |-> BuildSeq(
                    LAMBDA b : Cardinality({k \in DOMAIN aqi_max :
                                               PdCut(aqi_max[k]) = b}),
                    1, Len(pie_labels)),
     driver_key |-> DriverKey(cols, mean_by_pollutant),
     driver_label |-> DriverLabel(DriverKey(cols, mean_by_pollutant))]

Summarize(args, cols, aqi_df) ==
    Summary(args, cols, aqi_df,
            BuildSeq(LAMBDA k : aqi_df[k].aqi_max, 1, Len(aqi_df)),
            BuildSeq(LAMBDA c :
                         NanMean(BuildSeq(LAMBDA k : aqi_df[k].aqi[c],
                                          1, Len(aqi_df))),
                     1, Len(cols)))

\* Lines 329-339: the columns of the requested pollutants, in the order
\* requested; none gives the second "no data" result.
WithColumns(args, conc, cols) ==
    IF cols = << >>
    THEN NoDataResult(args, "No AQI could be computed for the selected pollutants.")
    ELSE Summarize(args, cols, AqiFrame(conc, cols))

WithConc(args, conc) ==
    WithColumns(args, conc,
                SelectSeq(args.pollutants, LAMBDA p : p \in Range(conc.cols)))

\* Lines 312-326.
WithRows(args, dff) ==
    IF dff = << >>
    THEN NoDataResult(args, "No data in the selected filters.")
    ELSE WithConc(args, ConcTable(DropNa(dff), args.agg))

update_all(city, station, start_date, end_date, pollutants, agg, thresh) ==
    WithRows([city |-> city, station |-> station, start_date |-> start_date,
              end_date |-> end_date, pollutants |-> pollutants,
              agg |-> agg, thresh |-> thresh],
             FilteredRows(city, station, start_date, end_date, pollutants))

----------------------------------------------------------------------------
(* The dashboard on one station: df holds up to MaxReadings rows, and the  *)
(* callback runs with any pollutant selection, aggregation and threshold.  *)

MaxReadings == 3

\* Sampled timestamps: 22:00 of day 0 and 02:00 of day 1, so that hourly
\* buckets have gaps, daily buckets have none and one week holds both.
SampleTimes == <<22, 26>>

\* Sampled concentrations per pollutant: below the table, the two sides of
\* the first breakpoint boundary, above the table.  Their means within a
\* bucket fall inside the later breakpoints and between breakpoints.
SampleValues(pollutant) ==
    IF pollutant = "pm25"
    THEN <<I(-5), R(120, 10), R(121, 10), I(600)>>
    ELSE <<I(-5), I(54), I(55), I(250)>>

SamplePollutants == <<"pm25", "o3">>

NumValues == Len(SampleValues("pm25"))
NumRows == Len(SampleTimes) * Len(SamplePollutants) * NumValues

\* The n-th row of the sampled universe, n in 0..NumRows-1.
RowOf(n) ==
    LET p == SamplePollutants[((n \div NumValues) % Len(SamplePollutants)) + 1]
    IN  [city |-> "A", station |-> "S1",
         datetime_local |->
             SampleTimes[n \div (NumValues * Len(SamplePollutants)) + 1],
         pollutant |-> p,
         value |-> SampleValues(p)[(n % NumValues) + 1]]

\* Row order does not matter to update_all (it filters, sorts by time and
\* averages), so one order per multiset of rows is enough.
Frames ==
    UNION {{[i \in 1..n |-> RowOf(ids[i])] :
              ids \in {f \in [1..n -> 0..(NumRows - 1)] :
                          \A i \in 1..(n - 1) : f[i] <= f[i + 1]}}
           : n \in 0..MaxReadings}

PollutantChoices ==
    {<< >>, <<"pm25">>, <<"o3">>, <<"pm25", "o3">>, <<"o3", "pm25">>}

ThreshChoices == {0, 150}

Init == df \in Frames /\ out = NoOut /\ call = NoCall

UpdateAll(city, station, start_date, end_date, pollutants, agg, thresh) ==
    /\ out' = update_all(city, station, start_date, end_date, pollutants,
                         agg, thresh)
    /\ UNCHANGED <<df, call>>

\* A run of the callback reads df and its inputs only, so a second run
\* reaches nothing the first cannot: the model follows one run.
Next ==
    /\ out = NoOut
    /\ \E pollutants \in PollutantChoices, agg \in {"H", "D", "W"},
          thresh \in ThreshChoices :
           UpdateAll("", "", NoDate, NoDate, pollutants, agg, thresh)

Spec == Init /\ [][Next]_vars

----------------------------------------------------------------------------
(* The dashboard's filters: rows of two stations in two cities, with and   *)
(* without a timestamp and a value, and the callback run with any city,    *)
(* station and date range.                                                 *)

MaxFilterRows == 2

Sites == << <<"A", "S1">>, <<"B", "S2">> >>
FilterTimes == <<0, 26, NaT>>
FilterValues == <<I(-5), R(120, 10), NaN>>

NumFilterRows == Len(Sites) * Len(FilterTimes) * Len(FilterValues)

FilterRowOf(n) ==
    [city |-> Sites[n \div (Len(FilterTimes) * Len(FilterValues)) + 1][1],
     station |-> Sites[n \div (Len(FilterTimes) * Len(FilterValues)) + 1][2],
     datetime_local |-> FilterTimes[((n \div Len(FilterValues)) % Len(FilterTimes)) + 1],
     pollutant |-> "pm25",
     value |-> FilterValues[(n % Len(FilterValues)) + 1]]

FilterFrames ==
    UNION {{[i \in 1..n |-> FilterRowOf(ids[i])] :
              ids \in {f \in [1..n -> 0..(NumFilterRows - 1)] :
                          \A i \in 1..(n - 1) : f[i] <= f[i + 1]}}
           : n \in 0..MaxFilterRows}

\* <<start_date, end_date>> in days: no range, day 0 only, from day 1, up
\* to day 0.
DateChoices == {<<NoDate, NoDate>>, <<0, 0>>, <<1, NoDate>>, <<NoDate, 0>>}

InitFilter == df \in FilterFrames /\ out = NoOut /\ call = NoCall

NextFilter ==
    /\ out = NoOut
    /\ \E city \in {"", "A", "B"}, station \in {"", "S1", "S2"},
          dates \in DateChoices,
          pollutants \in {<< >>, <<"pm25">>, <<"o3">>},
          agg \in {"D", ""} :
           UpdateAll(city, station, dates[1], dates[2], pollutants, agg, 100)

SpecFilter == InitFilter /\ [][NextFilter]_vars

----------------------------------------------------------------------------
(* Properties.                                                             *)

IsAqiCall == call.fn = "compute_aqi_for_value" /\ call.pollutant \in KnownPollutants
IsCategoryCall == call.fn = "aqi_category"

\* The rows of aqi_df of a normal result, and those with a defined overall
\* index.
Buckets == out.aqi_df
DefinedBuckets == {k \in DOMAIN Buckets : ~IsMissing(Buckets[k].aqi_max)}

\* The threshold a run compares with (the default 100 when none is given).
Threshold == I(IF out.args.thresh = 0 THEN 100 ELSE out.args.thresh)

\* C1: the exceedance rate is the number of buckets with a defined overall
\* index >= threshold over the number of buckets with a defined overall
\* index, and is undefined when no bucket has a defined overall index.
C1_ExceedanceOverDefinedBuckets ==
    out.kind = "ok" =>
        IF DefinedBuckets = {} THEN IsMissing(out.exceed_rate)
        ELSE out.exceed_rate =
                 RMul(R(Cardinality({k \in DefinedBuckets :
                                        RLe(Threshold, Buckets[k].aqi_max)}),
                        Cardinality(DefinedBuckets)),
                      I(100))

\* The rows a run's filters keep, and whether a requested pollutant has a
\* defined index in some bucket of the result.
RunRows ==
    FilteredRows(out.args.city, out.args.station, out.args.start_date,
                 out.args.end_date, out.args.pollutants)
SomeIndexDefined ==
    /\ out.kind = "ok"
    /\ \E k \in DOMAIN Buckets : \E c \in DOMAIN out.cols :
          ~IsMissing(Buckets[k].aqi[c])

\* C2: update_all returns the "no data" result whenever the filtered rows
\* are empty or no requested pollutant has a defined index in any bucket.
C2_NoDataWheneverNoIndex ==
    out.kind # "none" =>
        ((RunRows = << >> \/ ~SomeIndexDefined) => out.kind = "no_data")

\* C3: compute_aqi_for_value is the piecewise function of the table: NaN for
\* a missing value; on the first breakpoint that holds the value, the line
\* through (conc_low, index_low) and (conc_high, index_high); 500 above the
\* last conc_high; NaN below the first conc_low.
C3_ComputeAqiPiecewise ==
    IsAqiCall =>
        LET table == AQI_TABLE(call.pollutant)
            c     == call.arg
            holds(i) == RLe(table[i][1], c) /\ RLe(c, table[i][2])
        IN  /\ IsMissing(c) => IsMissing(call.result)
            /\ \A i \in DOMAIN table :
                  (holds(i) /\ \A j \in 1..(i - 1) : ~holds(j)) =>
                      /\ ~IsMissing(call.result)
                      /\ RMul(RSub(call.result, I(table[i][3])),
                              RSub(table[i][2], table[i][1]))
                           = RMul(I(table[i][4] - table[i][3]),
                                  RSub(c, table[i][1]))
                      /\ c = table[i][1] => call.result = I(table[i][3])
                      /\ c = table[i][2] => call.result = I(table[i][4])
            /\ RLt(table[Len(table)][2], c) => call.result = I(500)
            /\ RLt(c, table[1][1]) => IsMissing(call.result)
            /\ (call.pollutant = "pm25" /\ c = I(12)) => call.result = I(50)
            /\ (call.pollutant = "pm25" /\ c = R(354, 10)) => call.result = I(100)
            /\ (call.pollutant = "pm25" /\ c = I(600)) => call.result = I(500)
            /\ (call.pollutant = "pm25" /\ c = I(-5)) => IsMissing(call.result)

C3_Witness ==
    /\ IsAqiCall /\ call.pollutant = "pm25"
    /\ call.arg = R(354, 10) /\ call.result = I(100)

\* C4: for a known pollutant compute_aqi_for_value returns an undefined
\* index only when the concentration is missing or below the lowest
\* conc_low.
C4_UndefinedOnlyMissingOrBelow ==
    (IsAqiCall /\ IsMissing(call.result)) =>
        \/ IsMissing(call.arg)
        \/ RLt(call.arg, AQI_TABLE(call.pollutant)[1][1])

\* C5: aqi_category returns the placeholder exactly when the index is
\* undefined or outside [0, 500].
C5_CategoryTotalOnScale ==
    IsCategoryCall =>
        (call.label = Dash <=>
            \/ IsMissing(call.arg)
            \/ RLt(call.arg, I(0))
            \/ RLt(I(500), call.arg))

\* C6: the k-th count of the category distribution is the number of buckets
\* that aqi_category puts in the k-th band; there is one count per band, in
\* band order; buckets with an undefined overall index are in no count.
C6_DistributionMatchesCategories ==
    out.kind = "ok" =>
        /\ Len(out.counts) = Len(AQI_CATEGORY)
        /\ \A b \in DOMAIN AQI_CATEGORY :
              out.counts[b] =
                  Cardinality({k \in DOMAIN Buckets :
                                  Buckets[k].aqi_cat = AQI_CATEGORY[b][3]})
        /\ RSum([b \in DOMAIN out.counts |-> I(out.counts[b])])
             = I(Cardinality(DefinedBuckets))

C6_Witness ==
    /\ out.kind = "ok"
    /\ out.counts[1] > 0 /\ out.counts[2] > 0
    /\ \E k \in DOMAIN Buckets : IsMissing(Buckets[k].aqi_max)
    /\ \E k \in DefinedBuckets : Buckets[k].aqi_max = I(50)

\* The mean index of the c-th requested column over the buckets where it is
\* defined (NaN when it is defined in none).
ColumnMean(c) ==
    LET ks == {k \in DOMAIN Buckets : ~IsMissing(Buckets[k].aqi[c])}
        total[S \in SUBSET ks] ==
            IF S = {} THEN I(0)
            ELSE LET k == CHOOSE x \in S : TRUE
                 IN  RAdd(Buckets[k].aqi[c], total[S \ {k}])
    IN  IF ks = {} THEN NaN ELSE RDiv(total[ks], I(Cardinality(ks)))

\* C7: the top driver is the requested pollutant with the highest mean
\* index, the first in the order requested among equals, and the
\* placeholder when no requested pollutant has a defined index.
C7_TopDriverHighestMeanFirstRequested ==
    /\ out.kind = "no_data" => out.driver_label = Dash
    /\ out.kind = "ok" =>
          LET req == out.args.pollutants
              \* position in cols of a requested pollutant, 0 if it has no column
              col(p) == IF p \in Range(out.cols) THEN IndexOf(out.cols, p) ELSE 0
              mean(p) == IF col(p) = 0 THEN NaN ELSE ColumnMean(col(p))
          IN  IF \A i \in DOMAIN req : IsMissing(mean(req[i]))
              THEN out.driver_key = Dash
              ELSE \E i \in DOMAIN req :
                      /\ out.driver_key = req[i]
                      /\ ~IsMissing(mean(req[i]))
                      /\ \A j \in DOMAIN req :
                            \/ IsMissing(mean(req[j]))
                            \/ RLe(mean(req[j]), mean(req[i]))
                      /\ \A j \in 1..(i - 1) :
                            \/ IsMissing(mean(req[j]))
                            \/ RLt(mean(req[j]), mean(req[i]))

C7_Witness ==
    /\ out.kind = "ok"
    /\ out.args.pollutants = <<"pm25", "o3">>
    /\ Len(out.cols) = 2
    /\ ~IsMissing(out.mean_by_pollutant[1])
    /\ out.mean_by_pollutant[1] = out.mean_by_pollutant[2]
    /\ out.driver_key = "pm25"

\* C8: the worst bucket has the largest defined overall index, is the
\* earliest of the buckets that have it, and is the placeholder exactly when
\* no overall index is defined; a bucket's overall index is the largest of
\* its defined per-pollutant indices, undefined when none is defined.
C8_WorstBucketEarliestMaximum ==
    out.kind = "ok" =>
        /\ \A k \in DOMAIN Buckets :
              LET mx == Buckets[k].aqi_max
                  xs == Range(Buckets[k].aqi)
              IN  IF \A x \in xs : IsMissing(x) THEN IsMissing(mx)
                  ELSE /\ mx \in xs /\ ~IsMissing(mx)
                       /\ \A x \in xs : IsMissing(x) \/ RLe(x, mx)
        /\ (out.worst_txt = Dash) <=> (DefinedBuckets = {})
        /\ DefinedBuckets # {} =>
              \E k \in DefinedBuckets :
                 /\ out.worst_idx = Buckets[k].ts
                 /\ out.worst_value = Buckets[k].aqi_max
                 /\ \A j \in DefinedBuckets :
                       /\ RLe(Buckets[j].aqi_max, Buckets[k].aqi_max)
                       /\ Buckets[j].aqi_max = Buckets[k].aqi_max
                            => Buckets[k].ts <= Buckets[j].ts

C8_Witness ==
    /\ out.kind = "ok"
    /\ \E j, k \in DefinedBuckets :
          /\ j < k
          /\ Buckets[j].aqi_max = Buckets[k].aqi_max
          /\ Buckets[j].aqi_max = out.worst_value
          /\ out.worst_idx = Buckets[j].ts

\* C9: every defined overall index of a result lies in [0, 500] and in one
\* of the bands of AQI_CATEGORY, so its category is a label; the placeholder
\* category occurs only with an undefined overall index.
C9_DefinedIndexHasCategory ==
    out.kind = "ok" =>
        \A k \in DOMAIN Buckets :
            LET mx == Buckets[k].aqi_max
            IN  IF IsMissing(mx) THEN Buckets[k].aqi_cat = Dash
                ELSE /\ RLe(I(0), mx) /\ RLe(mx, I(500))
                     /\ \E b \in DOMAIN AQI_CATEGORY :
                           /\ RLe(I(AQI_CATEGORY[b][1]), mx)
                           /\ RLe(mx, I(AQI_CATEGORY[b][2]))
                           /\ Buckets[k].aqi_cat = AQI_CATEGORY[b][3]
                     /\ Buckets[k].aqi_cat # Dash

C9_Witness ==
    /\ out.kind = "ok"
    /\ \E k \in DefinedBuckets :
          /\ Buckets[k].aqi_max[2] # 1
          /\ Buckets[k].aqi_cat = "Very Unhealthy"
    /\ \E k \in DOMAIN Buckets : IsMissing(Buckets[k].aqi_max)

\* C10: for one pollutant, a larger concentration never has a smaller
\* defined index: of two calls in a row on concentrations c1 <= c2 with
\* defined results, the second result is at least the first.
C10_IndexMonotone ==
    [][(/\ IsAqiCall /\ IsAqiCall'
        /\ call.pollutant = call'.pollutant
        /\ ~IsMissing(call.result) /\ ~IsMissing(call'.result)
        /\ RLe(call.arg, call'.arg))
       => RLe(call.result, call'.result)]_vars

C10_Witness ==
    /\ IsAqiCall /\ call.pollutant = "o3"
    /\ call.arg = R(401, 2) /\ call.result = I(500)

=============================================================================
